---- MODULE Spec2Model ----
(***************************************************************************)
(* Job / item progress state machine of the company-data extractor:        *)
(* ScrapingService.createJob (dispatcher), the BullMQ "scrape-queue" with  *)
(* its retry policy, ScrapingProcessor.process / processItem (one task per *)
(* URL) and ScrapingRepository.updateItemStatus / updateJobProgress.       *)
(* Every await of the source is a separate step, so that the tasks of one  *)
(* job interleave exactly where the event loop lets them.                  *)
(***************************************************************************)
EXTENDS Integers, Sequences, FiniteSets, TLC

\* ------------------------------------------------------------------ bounds
\* Largest number of URLs a submitted file holds in the model.
MaxUrls == 2

\* ------------------------------------------------------- program constants
\* scrapeQueue.add(..., { attempts: 3, backoff: { type: "exponential", delay: 2000 } })
MaxAttempts == 3
BackoffBaseMs == 2000
\* validateStatus: (status) => status < 400
MinErrorStatus == 400

NULL == "<null>"
NoError == "<none>"
\* The message of an error thrown by the database driver.
DbErrorText == "db write failed"
\* The message of an error thrown by cheerio.load on a body it cannot load.
LoadErrorText == "document load failed"

Urls == 1..MaxUrls

VARIABLES
    job,        \* the scraping_jobs row of the job, or NoJob before its insert
    items,      \* the scraping_items rows of the job, a sequence indexed by item id
    dispatch,   \* ScrapingService.createJob: [pc, urls, snap, result]
    task,       \* per item id: the queue task and the processItem execution on it
    dbFailed,   \* whether a persistence call has thrown so far
    call,       \* one call of a function of the fetcher or the extractor:
                \* [fn, arg, ret, pc]; NoCall while the job machine runs
    pool,       \* the worker of "scrape-queue" seen from the queue: how many
                \* tasks wait, how many process() calls run, how many settled
    nerCache    \* ScrapingProcessor.nerCache: per cache key, the entry or none

vars == <<job, items, dispatch, task, dbFailed, call, pool, nerCache>>

NoCall == [fn |-> "<none>", pc |-> "idle"]
EmptyPool == [waiting |-> 0, active |-> 0, settled |-> 0]

\* The id the database generates for the job row.
NewJobId == "job-1"

NoJob == [exists |-> FALSE, id |-> NULL, status |-> NULL, totalUrls |-> 0,
          processedUrls |-> 0, failedUrls |-> 0]

NoSnap == [completedCount |-> 0, failedCount |-> 0, totalCount |-> 0]

\* ------------------------------------------------------------ repository
\* createJob: the row inserted for a new job.
NewJobRow(totalUrls) ==
    [exists |-> TRUE, id |-> NewJobId, status |-> "pending",
     totalUrls |-> totalUrls, processedUrls |-> 0, failedUrls |-> 0]

\* createItems: one row per URL, status pending, every other column null.
\* url is the position of the URL in the submitted list.
NewItemRow(jobId, url) ==
    [jobId |-> jobId, url |-> url, status |-> "pending", lastError |-> NULL,
     startedAt |-> FALSE, finishedAt |-> FALSE, extracted |-> FALSE]

\* updateJobProgress, the filter that counts processed items.
CountsAsProcessed_OnlyCompleted(status) == status = "completed"
CountsAsProcessed_AlsoProcessing(status) ==
    status = "processing" \/ status = "completed" \/ status = "failed"
CountsAsProcessed(status) == status = "completed" \/ status = "failed"

\* updateJobProgress, the filter that counts failed items.
CountsAsFailed_AlsoCompleted(status) == status = "failed" \/ status = "completed"
CountsAsFailed(status) == status = "failed"

\* updateJobProgress, first await: select the job's items and count them.
ReadProgress(rows) ==
    [completedCount |-> Cardinality({i \in DOMAIN rows : CountsAsProcessed(rows[i].status)}),
     failedCount    |-> Cardinality({i \in DOMAIN rows : CountsAsFailed(rows[i].status)}),
     totalCount     |-> Len(rows)]

\* updateJobProgress, the status derived from the three counts.
JobStatusOf_FailedWhenAnyFailed(completedCount, failedCount, totalCount) ==
    IF completedCount = totalCount /\ totalCount > 0
    THEN IF failedCount > 0 THEN "failed" ELSE "completed"
    ELSE "processing"
JobStatusOf(completedCount, failedCount, totalCount) ==
    IF completedCount = totalCount /\ totalCount > 0
    THEN IF failedCount = totalCount THEN "failed" ELSE "completed"
    ELSE "processing"

\* updateJobProgress, second await: the update of the job row from the counts
\* read before.
WriteProgress_CountsUp(row, snap) ==
    [row EXCEPT !.processedUrls = @ + 1,
                !.failedUrls = snap.failedCount,
                !.status = JobStatusOf(snap.completedCount, snap.failedCount,
                                       snap.totalCount)]
WriteProgress_Increments(row, snap) ==
    [row EXCEPT !.processedUrls = @ + snap.completedCount,
                !.failedUrls = @ + snap.failedCount,
                !.status = JobStatusOf(snap.completedCount, snap.failedCount,
                                       snap.totalCount)]
WriteProgress(row, snap) ==
    [row EXCEPT !.processedUrls = snap.completedCount,
                !.failedUrls = snap.failedCount,
                !.status = JobStatusOf(snap.completedCount, snap.failedCount,
                                       snap.totalCount)]

\* updateItemStatus(itemId, "processing", { startedAt })
ProcessingFields_NoStartTime(row) == [row EXCEPT !.status = "processing"]
ProcessingFields(row) ==
    [row EXCEPT !.status = "processing", !.startedAt = TRUE]

\* updateItemStatus(itemId, "completed", { ...companyData, contacts, rawData,
\* finishedAt, lastError: null })
CompletedFields_KeepsError(row) ==
    [row EXCEPT !.status = "completed", !.extracted = TRUE, !.finishedAt = TRUE]
CompletedFields(row) ==
    [row EXCEPT !.status = "completed", !.extracted = TRUE,
                !.finishedAt = TRUE, !.lastError = NULL]

\* updateItemStatus(itemId, "failed", { lastError: errorMessage, finishedAt })
FailedFields_ClearsData(row, errorMessage) ==
    [row EXCEPT !.status = "failed", !.lastError = errorMessage,
                !.finishedAt = TRUE, !.extracted = FALSE]
FailedFields_NoError(row, errorMessage) ==
    [row EXCEPT !.status = "failed", !.lastError = NULL, !.finishedAt = TRUE]
FailedFields(row, errorMessage) ==
    [row EXCEPT !.status = "failed", !.lastError = errorMessage,
                !.finishedAt = TRUE]

\* A persistence call either succeeds or throws (try/catch/rethrow around
\* every query of the repository).
DbOutcomes == {TRUE, FALSE}
DbCount(ok) == dbFailed \/ ~ok

\* ----------------------------------------------------------------- fetcher
\* What axios.get settles with: the transport error code ("" when none) and
\* the response status (0 when there is no response).
FetchOutcomes ==
    { [code |-> "", status |-> 200, message |-> ""],
      [code |-> "ECONNRESET", status |-> 0, message |-> "socket hang up"],
      [code |-> "ERR_BAD_REQUEST", status |-> 404,
       message |-> "Request failed with status code 404"] }

\* validateStatus and the absence of a transport error.
FetchSucceeds(o) == o.code = "" /\ o.status > 0 /\ o.status < MinErrorStatus

\* fetchHtml, catch block: the message of the Error it rethrows.
ClassifyFetchError_TransportCodeFirst(o) ==
    IF o.code = "ECONNABORTED" THEN "Request timeout"
    ELSE IF o.code = "ECONNREFUSED" THEN "Connection refused"
    ELSE IF o.code = "ENOTFOUND" THEN "DNS resolution failed"
    ELSE IF o.code = "ECONNRESET" THEN "Connection reset by server"
    ELSE IF o.status > 0 /\ o.status >= MinErrorStatus THEN "HTTP " \o ToString(o.status)
    ELSE o.message
ClassifyFetchError(o) ==
    IF o.status > 0 /\ o.status >= MinErrorStatus THEN "HTTP " \o ToString(o.status)
    ELSE IF o.code = "ECONNABORTED" THEN "Request timeout"
    ELSE IF o.code = "ECONNREFUSED" THEN "Connection refused"
    ELSE IF o.code = "ENOTFOUND" THEN "DNS resolution failed"
    ELSE IF o.code = "ECONNRESET" THEN "Connection reset by server"
    ELSE o.message

FetchErrorTexts == {ClassifyFetchError(o) : o \in {f \in FetchOutcomes : ~FetchSucceeds(f)}}

\* ------------------------------------------------------------------- queue
\* Delay before the retry that follows the attemptsMade-th failed attempt.
BackoffDelay(attemptsMade) == BackoffBaseMs * (2 ^ (attemptsMade - 1))

\* createJob, jobsToEnqueue: the payload of the task of one created item.
NoData == [itemId |-> NULL, url |-> NULL, jobId |-> NULL]
TaskData_NoJobId(itemId, row, jobId) ==
    [itemId |-> itemId, url |-> row.url, jobId |-> NULL]
TaskData(itemId, row, jobId) ==
    [itemId |-> itemId, url |-> row.url, jobId |-> jobId]

\* ============================================ fetcher and extractor calls
\* Largest number of .contact-card elements of a document in the model.
MaxCards == 2

\* tryFallbackSelectors: cleaned.length < 500
MaxFallbackLength == 500
\* extractWithNER: bodyText.length < 50
MinNerTextLength == 50
\* extractWithNER, parseContacts: length > 1 && length < 100
MaxEntityLength == 100
\* extractWithNER: const MAX_TEXT_LENGTH = 100000
MaxTextLength == 100000

\* A JavaScript string value: what it says (s), the length of its trimmed
\* text (n) and the number of whitespace characters around it (pad).  NoText
\* is null or undefined, EmptyText the string "".
Txt(s, n, pad) == [s |-> s, n |-> n, pad |-> pad]
NoText == Txt(NULL, 0, 0)
EmptyText == Txt("", 0, 0)
Blank == Txt("", 0, 2)

IsNull(t) == t.s = NULL
Length(t) == t.n + t.pad
\* String.prototype.trim
Trim(t) == [t EXCEPT !.pad = 0]
\* The truthiness of a string or null: `if (value)`, `!value`.
Truthy(t) == ~IsNull(t) /\ Length(t) > 0
\* value || null
OrNull(t) == IF Truthy(t) THEN t ELSE NoText

Fields == {"companyName", "website", "industry", "headcountRange", "hqLocation"}

\* ---------------------------------------------------------- extractWithNER
NoNer == [companyName |-> NoText, hqLocation |-> NoText,
          people |-> << >>, emails |-> << >>]
NoCache == [present |-> FALSE, entry |-> NoNer]

RECURSIVE FirstReasonable(_)
\* organizations.find((o) => o.length > 1 && o.length < 100) || null
FirstReasonable(candidates) ==
    IF candidates = << >> THEN NoText
    ELSE IF Length(Head(candidates)) > 1 /\ Length(Head(candidates)) < MaxEntityLength
         THEN Head(candidates)
         ELSE FirstReasonable(Tail(candidates))

\* if (bodyText.length > MAX_TEXT_LENGTH) bodyText = bodyText.substring(0, MAX_TEXT_LENGTH)
Capped_Unlimited(len) == len
Capped(len) == IF len > MaxTextLength THEN MaxTextLength ELSE len

\* What nlp() and the email regex find in the first `limit` characters of a
\* text: the mentions that end there, in text order.
Within(mentions, limit) ==
    LET found == SelectSeq(mentions, LAMBDA m : m.end <= limit)
    IN [k \in DOMAIN found |-> found[k].t]

\* extractWithNER($, cacheKey) for a document body: the length of its
\* whitespace-collapsed text and the mentions in it, each with the offset
\* where it ends (or that nlp() throws).  Returns the result, the cache entry
\* of the item afterwards, whether it threw and the number of nlp() calls.
ExtractWithNER(body, cache) ==
    IF cache.present
    THEN [ner |-> cache.entry, cache |-> cache, threw |-> FALSE, nlpCalls |-> 0]
    ELSE IF body.len < MinNerTextLength
    THEN [ner |-> NoNer, cache |-> [present |-> TRUE, entry |-> NoNer],
          threw |-> FALSE, nlpCalls |-> 0]
    ELSE IF body.nlpThrows
    THEN [ner |-> NoNer, cache |-> cache, threw |-> TRUE, nlpCalls |-> 1]
    ELSE LET limit == Capped(body.len)
             result == [companyName |-> FirstReasonable(Within(body.organizations, limit)),
                        hqLocation |-> FirstReasonable(Within(body.places, limit)),
                        people |-> Within(body.people, limit),
                        emails |-> Within(body.emails, limit)]
         IN [ner |-> result, cache |-> [present |-> TRUE, entry |-> result],
             threw |-> FALSE, nlpCalls |-> 1]

\* ------------------------------------------------------- parseCompanyData
\* What a selector of a fallback list gives when $(selector) throws.
SelectorThrows == Txt("<throws>", 0, 0)

\* tryFallbackSelectors, the test under which the loop returns cleaned:
\* if (value) { cleaned = value.trim(); if (cleaned.length > 0 &&
\* cleaned.length < 500) ... }; a selector that throws is skipped.
ReturnsCleaned_AnyLength(value) ==
    value # SelectorThrows /\ Truthy(value) /\ Length(Trim(value)) > 0
ReturnsCleaned(value) ==
    /\ value # SelectorThrows
    /\ Truthy(value)
    /\ Length(Trim(value)) > 0 /\ Length(Trim(value)) < MaxFallbackLength

RECURSIVE TryFallbackSelectors(_)
\* tryFallbackSelectors($, selectors), given what each selector of the list
\* extracts, in list order.
TryFallbackSelectors(extracted) ==
    IF extracted = << >> THEN NoText
    ELSE IF ReturnsCleaned(Head(extracted)) THEN Trim(Head(extracted))
    ELSE TryFallbackSelectors(Tail(extracted))

RECURSIVE SelectorsTried(_)
\* tryFallbackSelectors: the number of selectors of the list the loop
\* evaluates before it returns.
SelectorsTried(extracted) ==
    IF extracted = << >> THEN 0
    ELSE IF ReturnsCleaned(Head(extracted)) THEN 1
    ELSE 1 + SelectorsTried(Tail(extracted))

\* Layer 1: $(selector).text().trim() || null, and for the website
\* $(selector).attr("href") || null.
Layer1(markup, f) ==
    IF f = "website" THEN OrNull(markup.l1[f]) ELSE OrNull(Trim(markup.l1[f]))

\* Layer 2: if (!field) field = tryFallbackSelectors($, FALLBACK_SELECTORS.FIELD)
Layer2(markup, f) ==
    IF ~Truthy(Layer1(markup, f)) THEN TryFallbackSelectors(markup.l2[f])
    ELSE Layer1(markup, f)

\* Layer 3: if (!field && nerData.field) field = nerData.field
FillFromNER_Overrides(current, offered) ==
    IF Truthy(offered) THEN offered ELSE current
FillFromNER(current, offered) ==
    IF ~Truthy(current) /\ Truthy(offered) THEN offered ELSE current

AllNull == [f \in Fields |-> NoText]

\* parseCompanyData, catch block: the company data returned when a statement
\* of the try block threw after Layers 1 and 2 had found `found`.
CaughtCompanyData_KeepsFound(found) == found
CaughtCompanyData(found) == AllNull

\* parseCompanyData($, itemId): the company data returned, the cache entry of
\* the item afterwards, whether the catch block was entered, and the numbers
\* of extractWithNER and nlp() calls made.
ParseCompanyData(markup, body, cache) ==
    LET found == [f \in Fields |-> Layer2(markup, f)]
        needsNer == ~Truthy(found["companyName"]) \/ ~Truthy(found["hqLocation"])
        nerData == ExtractWithNER(body, cache)
    IN IF ~needsNer
       THEN [data |-> found, cache |-> cache, caught |-> FALSE,
             nerCalls |-> 0, nlpCalls |-> 0]
       ELSE IF nerData.threw
       THEN [data |-> CaughtCompanyData(found), cache |-> nerData.cache, caught |-> TRUE,
             nerCalls |-> 1, nlpCalls |-> nerData.nlpCalls]
       ELSE [data |-> [found EXCEPT
                         !["companyName"] = FillFromNER(@, nerData.ner.companyName),
                         !["hqLocation"] = FillFromNER(@, nerData.ner.hqLocation)],
             cache |-> nerData.cache, caught |-> FALSE,
             nerCalls |-> 1, nlpCalls |-> nerData.nlpCalls]

\* ----------------------------------------------------------- parseContacts
NoContacts == [isNull |-> TRUE, list |-> << >>]
\* contacts.length > 0 ? contacts : null
ContactsOrNull(list) ==
    IF Len(list) > 0 THEN [isNull |-> FALSE, list |-> list] ELSE NoContacts

\* The three sub-fields of a card: $(element).find(selector).text().trim()
CardFields(card) ==
    [name |-> Trim(card.name), title |-> Trim(card.title), email |-> Trim(card.email)]

\* if (name && title && email)
AcceptCard_NameOnly(c) == Truthy(c.name)
AcceptCard(c) == Truthy(c.name) /\ Truthy(c.title) /\ Truthy(c.email)

RECURSIVE StructuredContacts(_)
\* $(SELECTORS.CONTACT_CARD).each(...)
StructuredContacts(cards) ==
    IF cards = << >> THEN << >>
    ELSE LET c == CardFields(Head(cards))
         IN (IF AcceptCard(c) THEN <<c>> ELSE << >>) \o StructuredContacts(Tail(cards))

UniqueEmails_KeepsDuplicates(emails) == emails
RECURSIVE UniqueEmails(_)
\* [...new Set(nerData.emails)]: the first occurrence of each email, in order.
UniqueEmails(emails) ==
    IF emails = << >> THEN << >>
    ELSE LET init == UniqueEmails(SubSeq(emails, 1, Len(emails) - 1))
             last == emails[Len(emails)]
         IN IF \E k \in DOMAIN init : init[k] = last THEN init ELSE Append(init, last)

Min(a, b) == IF a < b THEN a ELSE b

RECURSIVE MatchPeople(_, _, _)
\* for (let i = 0; i < maxMatches; i++): the contacts of the pairs 1..k.
MatchPeople(people, emails, k) ==
    IF k = 0 THEN << >>
    ELSE LET person == people[k]
             rest == MatchPeople(people, emails, k - 1)
         IN IF Truthy(person) /\ Length(person) > 1 /\ Length(person) < MaxEntityLength
            THEN Append(rest, [name |-> person, title |-> Txt("Unknown", 7, 0),
                               email |-> emails[k]])
            ELSE rest

\* Layer 2 of parseContacts: contacts from the people and emails of NER.
NerContacts(ner) ==
    IF Len(ner.people) > 0 /\ Len(ner.emails) > 0
    THEN MatchPeople(ner.people, UniqueEmails(ner.emails),
                     Min(Len(ner.people), Len(UniqueEmails(ner.emails))))
    ELSE << >>

\* if (contacts.length === 0)
NoStructuredContact_Ignored(structured) == TRUE
NoStructuredContact(structured) == Len(structured) = 0

\* parseContacts($, itemId): the contacts returned (or null), the cache entry
\* of the item afterwards, whether the catch block was entered, and the
\* numbers of extractWithNER and nlp() calls made.
ParseContacts(cards, body, cache) ==
    LET structured == StructuredContacts(cards)
        nerData == ExtractWithNER(body, cache)
    IN IF ~NoStructuredContact(structured)
       THEN [contacts |-> ContactsOrNull(structured), cache |-> cache, caught |-> FALSE,
             nerCalls |-> 0, nlpCalls |-> 0]
       ELSE IF nerData.threw
       THEN [contacts |-> NoContacts, cache |-> nerData.cache, caught |-> TRUE,
             nerCalls |-> 1, nlpCalls |-> nerData.nlpCalls]
       ELSE [contacts |-> ContactsOrNull(NerContacts(nerData.ner)),
             cache |-> nerData.cache, caught |-> FALSE,
             nerCalls |-> 1, nlpCalls |-> nerData.nlpCalls]

\* ------------------------------------------------------- fetchHtml, catch
\* The message of the Error fetchHtml throws for what axios.get threw: an
\* AxiosError, another Error, or a value that is not an Error.
FetchHtmlErrorMessage(e) ==
    IF e.isAxios THEN ClassifyFetchError(e)
    ELSE IF e.isError THEN e.message
    ELSE "Unknown error"

\* ------------------------------------------- processItem, the extraction
\* A fetched response body: whether cheerio.load accepts it, and what the
\* selectors, the contact cards and the body text of the document hold.
Page(loadable, markup, cards, body) ==
    [loadable |-> loadable, markup |-> markup, cards |-> cards, body |-> body]

\* nerCache as constructed: new Map(), no entry for any key.
EmptyNerCache == [k \in Urls |-> NoCache]

\* this.nerCache.delete(itemId)
CacheDelete_Skipped(cache, key) == cache
CacheDelete(cache, key) == [cache EXCEPT ![key] = NoCache]

\* What processItem keeps of the extraction until it writes the item:
\* companyData and contacts, with the numbers of extractWithNER and nlp()
\* calls the extraction made.
NoParsed == [companyData |-> AllNull, contacts |-> NoContacts,
             nerCalls |-> 0, nlpCalls |-> 0]

\* processItem, the statements from cheerio.load to nerCache.delete, which run
\* without an await between them: the load (which may throw),
\* parseCompanyData($, itemId), parseContacts($, itemId) and the delete.
ExtractionBlock(page, key, cache) ==
    IF ~page.loadable
    THEN [threw |-> TRUE, parsed |-> NoParsed, cache |-> cache]
    ELSE LET companyData == ParseCompanyData(page.markup, page.body, cache[key])
             contacts == ParseContacts(page.cards, page.body, companyData.cache)
         IN [threw |-> FALSE,
             parsed |-> [companyData |-> companyData.data,
                         contacts |-> contacts.contacts,
                         nerCalls |-> companyData.nerCalls + contacts.nerCalls,
                         nlpCalls |-> companyData.nlpCalls + contacts.nlpCalls],
             cache |-> CacheDelete([cache EXCEPT ![key] = contacts.cache], key)]

\* ------------------------------------------------------------------ getJob
\* The scraping_jobs and scraping_items rows of a job id, as getJob returns
\* them.
JobRowOf(db, jobId) == [id |-> jobId, userId |-> db.owner[jobId]]
ItemRowsOf(db, jobId) == [k \in 1..db.itemCount |-> [jobId |-> jobId, url |-> k]]
NoJobRow == [id |-> NULL, userId |-> NULL]

\* findJobById(jobId, userId): where(and(eq(id, jobId), eq(userId, userId)))
\* .limit(1), the row or null.
FindJobById_NoUserFilter(db, jobId, userId) ==
    IF db.owner[jobId] # "<no user>" THEN JobRowOf(db, jobId) ELSE NoJobRow
FindJobById(db, jobId, userId) ==
    IF db.owner[jobId] # "<no user>" /\ db.owner[jobId] = userId
    THEN JobRowOf(db, jobId) ELSE NoJobRow

\* findItemsByJobId(jobId)
FindItemsByJobId(db, jobId) ==
    IF db.owner[jobId] # "<no user>" THEN ItemRowsOf(db, jobId) ELSE << >>

\* getJob(jobId, userId): { job, items }, NotFoundException when findJobById
\* returns null, BadRequestException when a query throws.
GetJob(db, jobId, userId, found, listed) ==
    LET nothing == [job |-> NoJobRow, items |-> << >>]
        row == FindJobById(db, jobId, userId)
    IN IF ~found THEN [error |-> "BadRequestException"] @@ nothing
       ELSE IF row = NoJobRow THEN [error |-> "NotFoundException"] @@ nothing
       ELSE IF ~listed THEN [error |-> "BadRequestException"] @@ nothing
       ELSE [error |-> NoError, job |-> row, items |-> FindItemsByJobId(db, jobId)]

\* ------------------------------------------------------------ the inputs
\* What the primary selector of a field may extract, and what the selectors of
\* its fallback list may.
L1Texts == {Blank, Txt("L1", 9, 2)}
L1Hrefs == {NoText, Blank, Txt("L1", 20, 0)}
L2Lists == { << >>,
             <<NoText, Blank, Txt("L2 long", MaxFallbackLength, 0), Txt("L2", 7, 1),
               Txt("L2 later", 5, 0)>> }
Markups ==
    { [l1 |-> l1, l2 |-> l2] :
        l1 \in { f \in [Fields -> L1Texts \cup L1Hrefs] :
                   /\ f["website"] \in L1Hrefs
                   /\ \A x \in Fields \ {"website"} : f[x] \in L1Texts },
        l2 \in [Fields -> L2Lists] }

Acme == Txt("Acme Corp", 9, 0)
SanFrancisco == Txt("San Francisco", 13, 0)
JaneDoe == Txt("Jane Doe", 8, 0)
JaneMail == Txt("jane@acme.com", 13, 0)
BobMail == Txt("bob@acme.com", 12, 0)
\* A mention of the body text and the offset where it ends; Early: the
\* mentions of a short text, one after the other.
Mention(t, end) == [t |-> t, end |-> end]
Early(texts) == [k \in DOMAIN texts |-> Mention(texts[k], 20 * k)]
Body(len, organizations, places, people, emails, nlpThrows) ==
    [len |-> len, organizations |-> Early(organizations), places |-> Early(places),
     people |-> Early(people), emails |-> Early(emails), nlpThrows |-> nlpThrows]
\* A body longer than the text limit, with mentions before and after it.
LongBody ==
    [len |-> MaxTextLength + 200,
     organizations |-> <<Mention(Txt("Late Org", 8, 0), MaxTextLength + 1),
                         Mention(Txt("Later Org", 9, 0), MaxTextLength + 100)>>,
     places |-> <<Mention(SanFrancisco, MaxTextLength),
                  Mention(Txt("Late Place", 10, 0), MaxTextLength + 50)>>,
     people |-> <<Mention(JaneDoe, 40), Mention(Txt("Late Person", 11, 0), MaxTextLength + 150)>>,
     emails |-> <<Mention(JaneMail, 60), Mention(BobMail, MaxTextLength + 180)>>,
     nlpThrows |-> FALSE]
Bodies ==
    { Body(MinNerTextLength - 1, <<Acme>>, <<SanFrancisco>>, <<JaneDoe>>, <<JaneMail>>, FALSE),
      Body(MinNerTextLength, <<Acme>>, <<SanFrancisco>>, <<JaneDoe>>, <<JaneMail>>, TRUE),
      Body(MinNerTextLength, <<Acme>>, <<SanFrancisco>>, <<JaneDoe>>, <<JaneMail>>, FALSE),
      Body(200, <<Txt("A", 1, 0), Acme>>, << >>, <<Txt("J", 1, 0), JaneDoe>>,
           <<JaneMail, JaneMail, BobMail>>, FALSE),
      Body(200, << >>, <<Txt("far", MaxEntityLength, 0), SanFrancisco>>,
           <<JaneDoe, Txt("Bob Roe", 7, 0)>>, <<JaneMail, JaneMail>>, FALSE),
      Body(200, << >>, << >>, <<JaneDoe>>, << >>, FALSE),
      Body(200, << >>, << >>, << >>, <<JaneMail>>, FALSE),
      LongBody }
\* The item's cache entry at the call: none, or the one an earlier
\* extractWithNER of the same execution left.
Caches ==
    { NoCache,
      [present |-> TRUE,
       entry |-> [companyName |-> Txt("Cached Inc", 10, 0), hqLocation |-> NoText,
                  people |-> <<JaneDoe>>, emails |-> <<BobMail>>]] }

\* The sub-fields of a card: text, no such element, or only whitespace.
Cards == [name : {EmptyText, Txt("card name", 9, 1)},
          title : {Blank, Txt("card title", 10, 0)},
          email : {EmptyText, Txt("card email", 10, 1)}]
RECURSIVE SeqsUpTo(_, _)
SeqsUpTo(S, n) ==
    IF n = 0 THEN { << >> }
    ELSE LET shorter == SeqsUpTo(S, n - 1)
         IN shorter \cup { Append(q, x) : q \in {r \in shorter : Len(r) = n - 1}, x \in S }

\* What axios.get may throw.
FetchErrors ==
    [isAxios : {TRUE}, isError : {TRUE},
     code : {"", "ECONNABORTED", "ECONNREFUSED", "ENOTFOUND", "ECONNRESET",
             "ERR_BAD_REQUEST", "ETIMEDOUT"},
     status : {0, 304, 399, 400, 404, 504},
     message : {"raw message"}]
    \cup [isAxios : {FALSE}, isError : BOOLEAN, code : {""}, status : {0},
          message : {"raw message"}]

\* The documents a fetch of the job machine may return: one cheerio cannot
\* load, one with every field and a contact card in its markup, and three
\* without markup whose body text differs.
StructuredMarkup ==
    [l1 |-> [f \in Fields |-> IF f = "website" THEN Txt("L1", 20, 0) ELSE Txt("L1", 9, 2)],
     l2 |-> [f \in Fields |-> << >>]]
BareMarkup ==
    [l1 |-> [f \in Fields |-> IF f = "website" THEN NoText ELSE Blank],
     l2 |-> [f \in Fields |-> << >>]]
FullCard == [name |-> Txt("card name", 9, 1), title |-> Txt("card title", 10, 0),
             email |-> Txt("card email", 10, 1)]
AcmeBody == Body(200, <<Acme>>, <<SanFrancisco>>, <<JaneDoe>>, <<JaneMail>>, FALSE)
FetchedPages ==
    << Page(FALSE, BareMarkup, << >>, AcmeBody),
       Page(TRUE, StructuredMarkup, <<FullCard>>, AcmeBody),
       Page(TRUE, BareMarkup, << >>, AcmeBody),
       Page(TRUE, BareMarkup, << >>, LongBody),
       Page(TRUE, BareMarkup, << >>,
            Body(200, <<Acme>>, <<SanFrancisco>>, <<JaneDoe>>, <<JaneMail>>, TRUE)) >>
Htmls == DOMAIN FetchedPages
NoHtml == 0

\* The extraction of each fetched page for each item on an empty cache,
\* computed once, and the extraction of a page on any cache.
ExtractionOnEmptyCache ==
    [h \in Htmls |-> [key \in Urls |->
         ExtractionBlock(FetchedPages[h], key, EmptyNerCache)]]
Extraction(h, key, cache) ==
    IF cache = EmptyNerCache THEN ExtractionOnEmptyCache[h][key]
    ELSE ExtractionBlock(FetchedPages[h], key, cache)

\* What one selector of a fallback list may extract.
SelectorValues ==
    { NoText, EmptyText, Blank, SelectorThrows,
      Txt("L2 long", MaxFallbackLength, 1), Txt("L2 short", MaxFallbackLength - 1, 2),
      Txt("L2 other", 5, 0) }
\* Largest number of selectors of a fallback list in the model.
MaxSelectors == 3

\* The documents of an extraction: name and location markup present or not,
\* fallback candidates present or not, up to MaxCards cards, every body.
PageMarkups ==
    { [l1 |-> [f \in Fields |-> IF f = "companyName" THEN n
                                ELSE IF f = "hqLocation" THEN h
                                ELSE IF f = "website" THEN NoText ELSE Blank],
       l2 |-> [f \in Fields |-> IF f = "companyName" THEN n2
                                ELSE IF f = "hqLocation" THEN h2 ELSE << >>]] :
        n \in L1Texts, h \in L1Texts, n2 \in L2Lists, h2 \in L2Lists }
CallPages ==
    { Page(TRUE, m, cs, b) : m \in PageMarkups, cs \in SeqsUpTo(Cards, MaxCards),
                              b \in Bodies }
    \cup { Page(FALSE, BareMarkup, << >>, AcmeBody) }

\* The rows getJob reads: the owner of each job id (NoUser when there is no
\* such job) and the number of items of the job.
Users == {"user-1", "user-2"}
NoUser == "<no user>"
JobIds == {"job-1", "job-2"}
Databases ==
    [owner : [JobIds -> Users \cup {NoUser}], itemCount : {0, 2}]

Calls ==
    { [fn |-> "processItem.extract", pc |-> "called", arg |-> page] : page \in CallPages }
    \cup
    { [fn |-> "extractWithNER", pc |-> "called", arg |-> [body |-> b, cache |-> c]] :
        b \in Bodies, c \in Caches }
    \cup
    { [fn |-> "tryFallbackSelectors", pc |-> "called", arg |-> e] :
        e \in SeqsUpTo(SelectorValues, MaxSelectors) }
    \cup
    { [fn |-> "getJob", pc |-> "called",
       arg |-> [db |-> db, jobId |-> j, userId |-> u, found |-> ok1, listed |-> ok2]] :
        db \in Databases, j \in JobIds, u \in Users, ok1 \in DbOutcomes,
        ok2 \in DbOutcomes }
    \cup
    { [fn |-> "parseCompanyData", pc |-> "called",
       arg |-> [markup |-> m, body |-> b, cache |-> c]] :
        m \in Markups, b \in Bodies, c \in Caches }
    \cup
    { [fn |-> "parseContacts", pc |-> "called",
       arg |-> [cards |-> cs, body |-> b, cache |-> c]] :
        cs \in SeqsUpTo(Cards, MaxCards), b \in Bodies, c \in Caches }
    \cup
    { [fn |-> "fetchHtml.catch", pc |-> "called", arg |-> e] : e \in FetchErrors }

\* ---------------------------------------------------- createJob, the request
\* createJob(userId, file?, useMockServer?): the uploaded file is given by the
\* number of its non-empty lines and the number of them that validator.isURL
\* accepts; mockConfigured is whether MOCK_COMPANY_DATA_SERVER_URL is set.
\* held is whether createJob still holds the request: NoRequest once it has
\* extracted the URLs.
NoFile == [present |-> FALSE, lines |-> 0, valid |-> 0]
NoRequest ==
    [held |-> FALSE, file |-> NoFile, useMockServer |-> FALSE, mockConfigured |-> FALSE]
Rejected == [error |-> TRUE, urls |-> 0]

\* urls = Array(15).fill(mockServerUrl)
MockUrlCount == 15

\* parseUrlsFromFile(file): the valid URLs of the file, or BadRequestException
\* when the file has lines and none of them is a valid URL.
ParseUrlsFromFile(file) ==
    IF file.valid = 0 /\ file.lines > 0 THEN Rejected
    ELSE [error |-> FALSE, urls |-> file.valid]

\* getMockServerUrl() and the 15 requests of mock mode.
MockServerUrls(mockConfigured) ==
    IF ~mockConfigured THEN Rejected ELSE [error |-> FALSE, urls |-> MockUrlCount]

\* createJob: if (urls.length === 0) throw new BadRequestException(...)
NoUrlExtracted_Ignored(urls) == FALSE
NoUrlExtracted(urls) == urls = 0

\* createJob, from the input validation to the check that there is a URL:
\* whether it throws, and the number of URLs otherwise.
ExtractUrls(request) ==
    IF ~request.file.present /\ ~request.useMockServer THEN Rejected
    ELSE IF request.file.present /\ request.useMockServer THEN Rejected
    ELSE LET urls == IF request.file.present THEN ParseUrlsFromFile(request.file)
                     ELSE MockServerUrls(request.mockConfigured)
         IN IF urls.error THEN Rejected
            ELSE IF NoUrlExtracted(urls.urls) THEN Rejected
            ELSE urls

\* The requests: no file or a file of up to MaxUrls non-empty lines, with or
\* without the mock-server flag; those that are accepted give at most MaxUrls
\* URLs.
Files ==
    {NoFile} \cup
    { [present |-> TRUE, lines |-> n, valid |-> v] : n \in 0..MaxUrls, v \in 0..MaxUrls }
Requests ==
    { r \in [held : {TRUE}, file : {f \in Files : f.valid <= f.lines},
             useMockServer : BOOLEAN, mockConfigured : BOOLEAN] :
        ExtractUrls(r).error \/ ExtractUrls(r).urls <= MaxUrls }

\* What a task delivered again remembers of the rows as they were before.
NoBefore == [item |-> NewItemRow(NULL, 0), job |-> NoJob]

\* A task that is not in the queue and one waiting in it.
\* err, thrown and snap are processItem's locals (the caught error's message,
\* the exception pending over the finally block, the counts read by
\* updateJobProgress).  The last four fields record what the execution did:
\* the updateJobProgress calls it made, whether it wrote an item status after
\* one, and whether its failed-status write or its updateJobProgress threw.
\* html is the fetched body (an index of FetchedPages) and parsed what the
\* extraction returned, both held until the completed-status write.
\* redelivered and before record that the queue delivered the task again
\* after it had completed, and the rows at that moment.
NoTask ==
    [pc |-> "unsubmitted", data |-> NoData,
     attemptsMade |-> 0, delayMs |-> 0, err |-> NoError,
     thrown |-> FALSE, snap |-> NoSnap,
     progressCalls |-> 0, wroteAfterProgress |-> FALSE,
     failedWriteThrew |-> FALSE, progressThrew |-> FALSE,
     redelivered |-> FALSE, before |-> NoBefore,
     html |-> NoHtml, parsed |-> NoParsed]

\* -------------------------------------------------------------- dispatcher
Init ==
    /\ job = NoJob
    /\ items = << >>
    /\ \E request \in Requests :
          dispatch = [pc |-> "createJob", request |-> request, urls |-> 0,
                      snap |-> NoSnap, result |-> NULL]
    /\ task = [i \in Urls |-> NoTask]
    /\ dbFailed = FALSE
    /\ call = NoCall
    /\ pool = EmptyPool
    /\ nerCache = EmptyNerCache

\* createJob up to scrapingRepository.createJob: the request is validated and
\* the URLs are extracted, all before the first await; a request that is
\* rejected throws BadRequestException before any persistence call.  Then the
\* job row is inserted.  The request is not used after that.
InsertJob ==
    /\ dispatch.pc = "createJob"
    /\ LET extracted == ExtractUrls(dispatch.request)
       IN IF extracted.error
          THEN /\ dispatch' = [dispatch EXCEPT !.pc = "returned", !.result = "error"]
               /\ UNCHANGED <<job, dbFailed>>
          ELSE \E ok \in DbOutcomes :
                 /\ dbFailed' = DbCount(ok)
                 /\ IF ok
                    THEN /\ job' = NewJobRow(extracted.urls)
                         /\ dispatch' = [dispatch EXCEPT !.pc = "createItems",
                                                         !.urls = extracted.urls,
                                                         !.request = NoRequest]
                    ELSE /\ job' = job
                         /\ dispatch' = [dispatch EXCEPT !.pc = "returned",
                                                         !.result = "error",
                                                         !.request = NoRequest]
    /\ UNCHANGED <<nerCache, pool, call, items, task>>

\* createJob: itemsData = urls.map((url) => ({ jobId, url, status: "pending" })),
\* one row per extracted URL.
ItemsData_DropsLast(jobId, urls) == [i \in 1..(urls - 1) |-> NewItemRow(jobId, i)]
ItemsData(jobId, urls) == [i \in 1..urls |-> NewItemRow(jobId, i)]

\* scrapingRepository.createItems(itemsData): one batch insert.
CreateItems ==
    /\ dispatch.pc = "createItems"
    /\ \E ok \in DbOutcomes :
         /\ dbFailed' = DbCount(ok)
         /\ IF ok
            THEN /\ items' = ItemsData(job.id, dispatch.urls)
                 /\ dispatch' = [dispatch EXCEPT !.pc = "progressRead"]
            ELSE /\ items' = items
                 /\ dispatch' = [dispatch EXCEPT !.pc = "returned", !.result = "error"]
    /\ UNCHANGED <<nerCache, pool, call, job, task>>

\* createJob's updateJobProgress(job.id), the select.
DispatchProgressRead ==
    /\ dispatch.pc = "progressRead"
    /\ \E ok \in DbOutcomes :
         /\ dbFailed' = DbCount(ok)
         /\ dispatch' = IF ok
                        THEN [dispatch EXCEPT !.pc = "progressWrite",
                                              !.snap = ReadProgress(items)]
                        ELSE [dispatch EXCEPT !.pc = "returned", !.result = "error"]
    /\ UNCHANGED <<nerCache, pool, call, job, items, task>>

\* createJob's updateJobProgress(job.id), the update.
DispatchProgressWrite ==
    /\ dispatch.pc = "progressWrite"
    /\ \E ok \in DbOutcomes :
         /\ dbFailed' = DbCount(ok)
         /\ IF ok
            THEN /\ job' = WriteProgress(job, dispatch.snap)
                 /\ dispatch' = [dispatch EXCEPT !.pc = "enqueue"]
            ELSE /\ job' = job
                 /\ dispatch' = [dispatch EXCEPT !.pc = "returned", !.result = "error"]
    /\ UNCHANGED <<nerCache, pool, call, items, task>>

\* enqueueSingleUrlJob(item.id, item.url, job.id): scrapeQueue.add settles, with
\* a task in the queue or with a rejection (add throws, or no job id is
\* assigned).  The adds are all started by enqueueMultipleUrlJobs before it
\* awaits, so those still pending settle also after one of them was rejected.
EnqueueSingleUrlJob(i) ==
    /\ \/ dispatch.pc = "enqueue"
       \/ \E j \in DOMAIN items : task[j].pc = "rejected"
    /\ i \in DOMAIN items
    /\ task[i].pc = "unsubmitted"
    /\ \E ok \in BOOLEAN :
         task' = [task EXCEPT ![i].pc = IF ok THEN "waiting" ELSE "rejected",
                             ![i].data = TaskData(i, items[i], job.id)]
    /\ UNCHANGED <<nerCache, pool, call, job, items, dispatch, dbFailed>>

\* createJob, after enqueueMultipleUrlJobs: { jobId } when every add was
\* fulfilled, BadRequestException when one was rejected.
CreateJobResult_IgnoresRejection(anyRejected) == "jobId"
CreateJobResult(anyRejected) == IF anyRejected THEN "error" ELSE "jobId"

\* enqueueMultipleUrlJobs: Promise.all over the adds settles when all are
\* fulfilled or as soon as one is rejected; createJob then returns the job id
\* or rethrows as BadRequestException.
DispatchReturn ==
    /\ dispatch.pc = "enqueue"
    /\ \/ \A i \in DOMAIN items : task[i].pc # "unsubmitted"
       \/ \E i \in DOMAIN items : task[i].pc = "rejected"
    /\ dispatch' = [dispatch EXCEPT
                      !.pc = "returned",
                      !.result = CreateJobResult(
                                    \E i \in DOMAIN items : task[i].pc = "rejected")]
    /\ UNCHANGED <<nerCache, pool, call, job, items, task, dbFailed>>

\* ------------------------------------------------- worker: process(job)
\* @Processor("scrape-queue", { concurrency: 20 }): the options of the one
\* worker the processor class registers.
WorkerOptions_ConcurrencyTypo == [concurrency |-> 200]
WorkerOptions == [concurrency |-> 20]

\* The worker calls process() for a further task only while fewer than
\* `concurrency` of its process() calls are running.
WorkerHasFreeSlot(active) == active < WorkerOptions.concurrency

\* The positions of a task while process(job) runs on it.
Running == {"markProcessing", "delay", "fetch", "extract", "markCompleted",
            "markFailed", "progressRead", "progressWrite", "settle"}
ActiveCount == Cardinality({j \in Urls : task[j].pc \in Running})

\* The worker takes a waiting task and calls process(job), which calls
\* processItem(itemId, url, jobId).
Deliver(i) ==
    /\ task[i].pc = "waiting"
    /\ task[i].attemptsMade < MaxAttempts
    /\ WorkerHasFreeSlot(ActiveCount)
    /\ task' = [task EXCEPT ![i] = [NoTask EXCEPT
                   !.pc = "markProcessing",
                   !.data = task[i].data,
                   !.redelivered = task[i].redelivered,
                   !.before = task[i].before,
                   !.attemptsMade = task[i].attemptsMade + 1]]
    /\ UNCHANGED <<nerCache, pool, call, job, items, dispatch, dbFailed>>

\* processItem: where control goes when a statement of the try block throws.
CatchTarget == "markFailed"

\* processItem, try block: updateItemStatus(itemId, "processing", { startedAt }).
MarkProcessing(i) ==
    /\ task[i].pc = "markProcessing"
    /\ \E ok \in DbOutcomes :
         /\ dbFailed' = DbCount(ok)
         /\ IF ok
            THEN /\ items' = [items EXCEPT ![i] = ProcessingFields(items[i])]
                 /\ task' = [task EXCEPT ![i].pc = "delay",
                                         ![i].wroteAfterProgress = task[i].progressCalls > 0]
            ELSE /\ items' = items
                 /\ task' = [task EXCEPT ![i].pc = CatchTarget,
                                         ![i].err = DbErrorText,
                                         ![i].wroteAfterProgress = task[i].progressCalls > 0]
    /\ UNCHANGED <<nerCache, pool, call, job, dispatch>>

\* processItem, try block: applyRateLimit(), a timer of REQUEST_DELAY_MS.
ApplyRateLimit(i) ==
    /\ task[i].pc = "delay"
    /\ task' = [task EXCEPT ![i].pc = "fetch"]
    /\ UNCHANGED <<nerCache, pool, call, job, items, dispatch, dbFailed>>

\* processItem, try block: fetchHtml(url) returns the body or throws
\* new Error(errorMessage).
FetchHtml(i) ==
    /\ task[i].pc = "fetch"
    /\ \E o \in FetchOutcomes, html \in Htmls :
         task' = IF FetchSucceeds(o)
                 THEN [task EXCEPT ![i].pc = "extract", ![i].html = html]
                 ELSE [task EXCEPT ![i].pc = CatchTarget,
                                   ![i].err = ClassifyFetchError(o)]
    /\ UNCHANGED <<nerCache, pool, call, job, items, dispatch, dbFailed>>

\* processItem, try block: cheerio.load(html), parseCompanyData, parseContacts,
\* nerCache.delete.  The two parse functions catch their own errors; only the
\* load can throw into processItem.
Extract(i) ==
    /\ task[i].pc = "extract"
    /\ LET block == Extraction(task[i].html, task[i].data.itemId, nerCache)
       IN /\ nerCache' = block.cache
          /\ task' = IF ~block.threw
                     THEN [task EXCEPT ![i].pc = "markCompleted",
                                       ![i].parsed = block.parsed]
                     ELSE [task EXCEPT ![i].pc = CatchTarget,
                                       ![i].err = LoadErrorText,
                                       ![i].html = NoHtml]
    /\ UNCHANGED <<pool, call, job, items, dispatch, dbFailed>>

\* processItem, try block: updateItemStatus(itemId, "completed", {...}).
MarkCompleted(i) ==
    /\ task[i].pc = "markCompleted"
    /\ \E ok \in DbOutcomes :
         /\ dbFailed' = DbCount(ok)
         /\ IF ok
            THEN /\ items' = [items EXCEPT ![i] = CompletedFields(items[i])]
                 /\ task' = [task EXCEPT ![i].pc = "progressRead",
                                         ![i].html = NoHtml, ![i].parsed = NoParsed,
                                         ![i].wroteAfterProgress = task[i].progressCalls > 0]
            ELSE /\ items' = items
                 /\ task' = [task EXCEPT ![i].pc = CatchTarget,
                                         ![i].err = DbErrorText,
                                         ![i].html = NoHtml, ![i].parsed = NoParsed,
                                         ![i].wroteAfterProgress = task[i].progressCalls > 0]
    /\ UNCHANGED <<nerCache, pool, call, job, dispatch>>

\* processItem: the finally block runs whether the catch block completed or
\* threw; this is where control goes after updateItemStatus(itemId, "failed").
AfterMarkFailed_NoFinallyOnThrow(ok) == IF ok THEN "progressRead" ELSE "settle"
AfterMarkFailed(ok) == "progressRead"

\* processItem, catch block: updateItemStatus(itemId, "failed", { lastError,
\* finishedAt }).  When it throws, the error leaves processItem after finally.
MarkFailed(i) ==
    /\ task[i].pc = "markFailed"
    /\ \E ok \in DbOutcomes :
         /\ dbFailed' = DbCount(ok)
         /\ IF ok
            THEN /\ items' = [items EXCEPT ![i] = FailedFields(items[i], task[i].err)]
                 /\ task' = [task EXCEPT ![i].pc = AfterMarkFailed(ok),
                                         ![i].wroteAfterProgress = task[i].progressCalls > 0]
            ELSE /\ items' = items
                 /\ task' = [task EXCEPT ![i].pc = AfterMarkFailed(ok),
                                         ![i].thrown = TRUE,
                                         ![i].failedWriteThrew = TRUE,
                                         ![i].wroteAfterProgress = task[i].progressCalls > 0]
    /\ UNCHANGED <<nerCache, pool, call, job, dispatch>>

\* processItem, finally block: the catch around updateJobProgress logs the error
\* and does not rethrow, so a pending exception of the catch block is the only
\* one that leaves processItem.
ThrownAfterProgressFailure_Rethrows(thrown) == TRUE
ThrownAfterProgressFailure(thrown) == thrown

\* processItem, finally block: updateJobProgress(jobId), the select.
ProgressRead(i) ==
    /\ task[i].pc = "progressRead"
    /\ \E ok \in DbOutcomes :
         /\ dbFailed' = DbCount(ok)
         /\ task' = IF ok
                    THEN [task EXCEPT ![i].pc = "progressWrite",
                                      ![i].snap = ReadProgress(items),
                                      ![i].progressCalls = @ + 1]
                    ELSE [task EXCEPT ![i].pc = "settle",
                                      ![i].thrown = ThrownAfterProgressFailure(@),
                                      ![i].progressCalls = @ + 1,
                                      ![i].progressThrew = TRUE]
    /\ UNCHANGED <<nerCache, pool, call, job, items, dispatch>>

\* processItem, finally block: updateJobProgress(jobId), the update.
ProgressWrite(i) ==
    /\ task[i].pc = "progressWrite"
    /\ \E ok \in DbOutcomes :
         /\ dbFailed' = DbCount(ok)
         /\ IF ok
            THEN /\ job' = WriteProgress(job, task[i].snap)
                 /\ task' = [task EXCEPT ![i].pc = "settle", ![i].snap = NoSnap]
            ELSE /\ job' = job
                 /\ task' = [task EXCEPT ![i].pc = "settle", ![i].snap = NoSnap,
                                         ![i].thrown = ThrownAfterProgressFailure(@),
                                         ![i].progressThrew = TRUE]
    /\ UNCHANGED <<nerCache, pool, call, items, dispatch>>

\* The queue's retry policy: a task whose process() threw is run again while it
\* has attempts left.
QueueRetries(i) == task[i].thrown /\ task[i].attemptsMade < MaxAttempts

\* process() settles: it rethrows what processItem threw.  The queue marks the
\* task completed, schedules the retry after the backoff delay, or marks it
\* failed when the attempts are used up.
Settle(i) ==
    /\ task[i].pc = "settle"
    /\ task' = [task EXCEPT ![i] = [NoTask EXCEPT
                   !.pc = IF QueueRetries(i) THEN "waiting"
                          ELSE IF task[i].thrown THEN "failed" ELSE "completed",
                   !.data = task[i].data,
                   !.redelivered = task[i].redelivered,
                   !.before = task[i].before,
                   !.attemptsMade = task[i].attemptsMade,
                   !.delayMs = IF QueueRetries(i)
                               THEN BackoffDelay(task[i].attemptsMade) ELSE 0]]
    /\ UNCHANGED <<nerCache, pool, call, job, items, dispatch, dbFailed>>

TaskStep(i) ==
    \/ Deliver(i)
    \/ MarkProcessing(i)
    \/ ApplyRateLimit(i)
    \/ FetchHtml(i)
    \/ Extract(i)
    \/ MarkCompleted(i)
    \/ MarkFailed(i)
    \/ ProgressRead(i)
    \/ ProgressWrite(i)
    \/ Settle(i)

DispatchStep ==
    \/ InsertJob
    \/ CreateItems
    \/ DispatchProgressRead
    \/ DispatchProgressWrite
    \/ DispatchReturn

Next ==
    \/ DispatchStep
    \/ \E i \in Urls : EnqueueSingleUrlJob(i)
    \/ \E i \in Urls : TaskStep(i)

Spec == Init /\ [][Next]_vars

\* The event loop runs every continuation that is ready, the worker takes every
\* waiting task, and every call settles.
FairSpec ==
    /\ Init /\ [][Next]_vars
    /\ WF_vars(DispatchStep)
    /\ \A i \in Urls : WF_vars(EnqueueSingleUrlJob(i))
    /\ \A i \in Urls : WF_vars(TaskStep(i))

\* The queue delivers a completed task a second time (at-least-once delivery)
\* and the worker calls process(job) for it again; here once per task, after
\* createJob has returned and while no other task of the job is running.
Redeliver(i) ==
    /\ dispatch.pc = "returned"
    /\ \A j \in Urls : task[j].pc \in {"unsubmitted", "rejected", "completed", "failed"}
    /\ task[i].pc = "completed"
    /\ ~task[i].redelivered
    /\ WorkerHasFreeSlot(ActiveCount)
    /\ task' = [task EXCEPT ![i] = [NoTask EXCEPT
                   !.pc = "markProcessing",
                   !.data = task[i].data,
                   !.attemptsMade = task[i].attemptsMade,
                   !.redelivered = TRUE,
                   !.before = [item |-> items[i], job |-> job]]]
    /\ UNCHANGED <<nerCache, pool, call, job, items, dispatch, dbFailed>>

RerunNext ==
    \/ Next
    \/ \E i \in Urls : Redeliver(i)

RerunSpec == Init /\ [][RerunNext]_vars

TypeOK ==
    /\ job.status \in {NULL, "pending", "processing", "completed", "failed"}
    /\ \A i \in DOMAIN items :
         items[i].status \in {"pending", "processing", "completed", "failed"}
    /\ dbFailed \in BOOLEAN

\* ----------------------------------------------------------- the calls
JobMachineIdle ==
    /\ job = NoJob
    /\ items = << >>
    /\ dispatch = [pc |-> "createJob", request |-> NoRequest, urls |-> 0,
                   snap |-> NoSnap, result |-> NULL]
    /\ task = [i \in Urls |-> NoTask]
    /\ dbFailed = FALSE
    /\ nerCache = EmptyNerCache

CallInit ==
    /\ JobMachineIdle
    /\ call \in Calls
    /\ pool = EmptyPool

CallParseCompanyData ==
    /\ call.fn = "parseCompanyData" /\ call.pc = "called"
    /\ call' = [fn |-> call.fn, pc |-> "returned", arg |-> call.arg,
                ret |-> ParseCompanyData(call.arg.markup, call.arg.body, call.arg.cache)]
    /\ UNCHANGED <<nerCache, pool, job, items, dispatch, task, dbFailed>>

CallParseContacts ==
    /\ call.fn = "parseContacts" /\ call.pc = "called"
    /\ call' = [fn |-> call.fn, pc |-> "returned", arg |-> call.arg,
                ret |-> ParseContacts(call.arg.cards, call.arg.body, call.arg.cache)]
    /\ UNCHANGED <<nerCache, pool, job, items, dispatch, task, dbFailed>>

CallFetchHtmlCatch ==
    /\ call.fn = "fetchHtml.catch" /\ call.pc = "called"
    /\ call' = [fn |-> call.fn, pc |-> "returned", arg |-> call.arg,
                ret |-> FetchHtmlErrorMessage(call.arg)]
    /\ UNCHANGED <<nerCache, pool, job, items, dispatch, task, dbFailed>>

\* processItem's extraction of a fetched document, for item 1 and with the
\* cache as constructed.
CallExtraction ==
    /\ call.fn = "processItem.extract" /\ call.pc = "called"
    /\ call' = [fn |-> call.fn, pc |-> "returned", arg |-> call.arg,
                ret |-> ExtractionBlock(call.arg, 1, EmptyNerCache)]
    /\ UNCHANGED <<nerCache, pool, job, items, dispatch, task, dbFailed>>

CallExtractWithNER ==
    /\ call.fn = "extractWithNER" /\ call.pc = "called"
    /\ call' = [fn |-> call.fn, pc |-> "returned", arg |-> call.arg,
                ret |-> ExtractWithNER(call.arg.body, call.arg.cache)]
    /\ UNCHANGED <<nerCache, pool, job, items, dispatch, task, dbFailed>>

CallTryFallbackSelectors ==
    /\ call.fn = "tryFallbackSelectors" /\ call.pc = "called"
    /\ call' = [fn |-> call.fn, pc |-> "returned", arg |-> call.arg,
                ret |-> [value |-> TryFallbackSelectors(call.arg),
                         tried |-> SelectorsTried(call.arg)]]
    /\ UNCHANGED <<nerCache, pool, job, items, dispatch, task, dbFailed>>

CallGetJob ==
    /\ call.fn = "getJob" /\ call.pc = "called"
    /\ call' = [fn |-> call.fn, pc |-> "returned", arg |-> call.arg,
                ret |-> GetJob(call.arg.db, call.arg.jobId, call.arg.userId,
                               call.arg.found, call.arg.listed)]
    /\ UNCHANGED <<nerCache, pool, job, items, dispatch, task, dbFailed>>

CallNext ==
    \/ CallExtraction
    \/ CallExtractWithNER
    \/ CallTryFallbackSelectors
    \/ CallGetJob
    \/ CallParseCompanyData
    \/ CallParseContacts
    \/ CallFetchHtmlCatch

CallSpec == CallInit /\ [][CallNext]_vars

Returned(fn) == call.pc = "returned" /\ call.fn = fn

\* ======================================================= the worker pool
\* Largest number of tasks the queue holds for the worker in the model.
MaxPoolTasks == 22

PoolInit ==
    /\ JobMachineIdle
    /\ call = NoCall
    /\ pool = EmptyPool

\* scrapeQueue.add: one more task waits in "scrape-queue".
PoolAdd ==
    /\ pool.waiting + pool.active + pool.settled < MaxPoolTasks
    /\ pool' = [pool EXCEPT !.waiting = @ + 1]
    /\ UNCHANGED <<nerCache, job, items, dispatch, task, dbFailed, call>>

\* The worker takes a waiting task and calls process(job) for it.
PoolDeliver ==
    /\ pool.waiting > 0
    /\ WorkerHasFreeSlot(pool.active)
    /\ pool' = [pool EXCEPT !.waiting = @ - 1, !.active = @ + 1]
    /\ UNCHANGED <<nerCache, job, items, dispatch, task, dbFailed, call>>

\* process(job) returns or throws; a task that threw and has attempts left
\* waits again.
PoolSettle ==
    /\ pool.active > 0
    /\ \E retried \in BOOLEAN :
         pool' = IF retried
                 THEN [pool EXCEPT !.active = @ - 1, !.waiting = @ + 1]
                 ELSE [pool EXCEPT !.active = @ - 1, !.settled = @ + 1]
    /\ UNCHANGED <<nerCache, job, items, dispatch, task, dbFailed, call>>

PoolNext ==
    \/ PoolAdd
    \/ PoolDeliver
    \/ PoolSettle

PoolSpec == PoolInit /\ [][PoolNext]_vars

\* ================================================================ claims
Terminal == {"completed", "failed"}
TerminalCount == Cardinality({i \in DOMAIN items : items[i].status \in Terminal})
FailedCount == Cardinality({i \in DOMAIN items : items[i].status = "failed"})

\* The job status the data model derives from processed, failed and total.
DerivedStatus(processed, failed, total) ==
    IF processed = total /\ failed < total THEN "completed"
    ELSE IF processed = total /\ failed = total THEN "failed"
    ELSE "processing"

ProgressInFlight(i) == task[i].pc \in {"progressRead", "progressWrite"}

\* C1: once every item is completed or failed and no updateJobProgress call is
\* in flight, the job row's processedUrls, failedUrls and status are the values
\* derived from the current item statuses, whatever the interleaving of the
\* tasks' item writes and of the read and write steps of updateJobProgress
\* (stated for behaviours in which no persistence call throws).
C1_QuiescentRowIsCurrent ==
    ( /\ ~dbFailed
      /\ Len(items) > 0
      /\ \A i \in DOMAIN items :
            items[i].status \in Terminal /\ ~ProgressInFlight(i) )
    => /\ job.processedUrls = TerminalCount
       /\ job.failedUrls = FailedCount
       /\ job.status = DerivedStatus(TerminalCount, FailedCount, Len(items))

\* C2 as stated: in every reachable state processedUrls is the number of
\* completed or failed items and failedUrls the number of failed items.
C2_CountersAlwaysCurrent ==
    job.exists => job.processedUrls = TerminalCount /\ job.failedUrls = FailedCount

\* What an updateJobProgress select and update do to the counts, for the
\* record (a task or the dispatcher) that makes the step.
C2_ReadIsExact(old, new) ==
    (old.pc = "progressRead" /\ new.pc = "progressWrite")
    => new.snap.completedCount = TerminalCount /\ new.snap.failedCount = FailedCount
C2_WriteIsExact(old) ==
    (old.pc = "progressWrite" /\ job' # job)
    => /\ job'.processedUrls = old.snap.completedCount
       /\ job'.failedUrls = old.snap.failedCount
       /\ (old.snap.completedCount = TerminalCount /\ old.snap.failedCount = FailedCount
             => job'.processedUrls = TerminalCount' /\ job'.failedUrls = FailedCount')

\* C2 amended: every updateJobProgress call reads the number of completed or
\* failed items and the number of failed items as they are at its select, and
\* writes exactly these to the job row; a write whose counts are still current
\* leaves processedUrls and failedUrls equal to the current counts.
C2_CountersFollowSnapshot ==
    [][ /\ C2_ReadIsExact(dispatch, dispatch')
        /\ \A i \in Urls : C2_ReadIsExact(task[i], task'[i])
        /\ \A i \in Urls : task'[i] # task[i] => C2_WriteIsExact(task[i])
        /\ dispatch' # dispatch => C2_WriteIsExact(dispatch) ]_vars
C2_Witness ==
    /\ job.exists /\ job.processedUrls = TerminalCount /\ job.failedUrls = FailedCount
    /\ TerminalCount > 1 /\ FailedCount > 0

\* C3 as stated: every job row has the status derived from its counters,
\* processing when it is neither completed nor failed.
C3_StatusAlwaysDerived ==
    job.exists =>
        /\ job.status = "completed"
             <=> (job.processedUrls = job.totalUrls /\ job.failedUrls < job.totalUrls)
        /\ job.status = "failed"
             <=> (job.processedUrls = job.totalUrls /\ job.failedUrls = job.totalUrls)
        /\ job.status \notin {"completed", "failed"} => job.status = "processing"

\* C3 amended: a job row that updateJobProgress has written has status
\* completed iff processed = total and failed < total, failed iff processed =
\* total = failed, and processing otherwise; the row as inserted by createJob
\* has status pending with both counters 0 until that first write.  A job of 10
\* items, 7 completed and 3 failed, is completed.
C3_StatusDerivedOnceWritten ==
    /\ job.exists =>
         IF job.status = "pending"
         THEN /\ job.processedUrls = 0 /\ job.failedUrls = 0
              /\ dispatch.pc \in {"createItems", "progressRead", "progressWrite", "returned"}
              /\ dispatch.pc = "returned" => dispatch.result = "error"
         ELSE job.status = DerivedStatus(job.processedUrls, job.failedUrls, job.totalUrls)
    /\ JobStatusOf(10, 3, 10) = "completed"
C3_Witness ==
    job.status = "completed" /\ job.failedUrls > 0 /\ job.processedUrls = job.totalUrls

C4_Allowed ==
    { <<"pending", "processing">>, <<"processing", "completed">>,
      <<"processing", "failed">> }

\* C4: an item's status moves only pending -> processing -> completed or
\* pending -> processing -> failed, and a completed or failed item never
\* changes status again.
C4_StatusMovesForwardOnly ==
    [][ \A i \in DOMAIN items :
          items'[i].status # items[i].status
            => <<items[i].status, items'[i].status>> \in C4_Allowed ]_vars

\* C5: every execution of processItem calls updateJobProgress exactly once,
\* after its last item-status write attempt, on every exit path - also when the
\* write of the failed status throws.
C5_ProgressOncePerExecution ==
    \A i \in Urls :
        /\ task[i].progressCalls <= 1
        /\ ~task[i].wroteAfterProgress
        /\ task[i].pc \in {"progressWrite", "settle"} => task[i].progressCalls = 1
        /\ task[i].pc \in {"markProcessing", "delay", "fetch", "extract",
                           "markCompleted", "markFailed", "progressRead"}
             => task[i].progressCalls = 0
C5_Witness ==
    \E i \in Urls : task[i].pc = "settle" /\ task[i].failedWriteThrew
                    /\ task[i].thrown /\ task[i].progressCalls = 1

\* C6 as stated: when a step of the task fails, the execution ends with the
\* item failed and lastError the error's text, and a fetch error never leaves
\* the task.
C6_FailureAlwaysMarksItemFailed ==
    \A i \in Urls :
        (task[i].pc = "settle" /\ task[i].err # NoError)
        => /\ items[i].status = "failed"
           /\ items[i].lastError = task[i].err
           /\ task[i].err \in FetchErrorTexts => ~task[i].thrown

\* C6 amended: when a statement of the try block fails (fetch, including a
\* response with status >= 400, document load, or a status write), the
\* execution never ends with the item completed; it ends with the item failed,
\* lastError the error's text and the task returning normally, unless the write
\* of the failed status itself throws: then the item keeps the status it had
\* (pending or processing) and that error leaves the task.
C6_FailureMarksItemFailedIfWritable ==
    \A i \in Urls :
        (task[i].pc = "settle" /\ task[i].err # NoError)
        => /\ items[i].status # "completed"
           /\ IF task[i].failedWriteThrew
              THEN task[i].thrown /\ items[i].status \in {"pending", "processing"}
              ELSE /\ items[i].status = "failed"
                   /\ items[i].lastError = task[i].err
                   /\ ~task[i].thrown
C6_Witness ==
    \E i \in Urls : /\ task[i].pc = "settle"
                    /\ task[i].err = "HTTP 404"
                    /\ items[i].status = "failed"
                    /\ items[i].lastError = "HTTP 404"
                    /\ ~task[i].thrown

\* C7 as stated: a failing processing or completed write, or a failing
\* updateJobProgress, leaves process() as an error and does not end as a
\* terminal item failure.
C7_PersistenceFailurePropagates ==
    \A i \in Urls :
        (task[i].pc = "settle" /\ (task[i].err = DbErrorText \/ task[i].progressThrew))
        => task[i].thrown /\ items[i].status # "failed"

\* C7 amended: a persistence failure leaves process() as an error exactly when
\* the write of the failed status throws, and the task then goes back to the
\* queue's retry policy with its item not failed by that execution.  A failing
\* processing or completed write whose failed-status write succeeds ends as a
\* terminal item failure with the persistence error as lastError, and a failing
\* updateJobProgress is logged and swallowed.
C7_OnlyFailedWriteFailurePropagates ==
    \A i \in Urls :
        task[i].pc = "settle"
        => /\ task[i].thrown <=> task[i].failedWriteThrew
           /\ task[i].thrown => items[i].status \in {"pending", "processing"}
           /\ (task[i].err = DbErrorText /\ ~task[i].failedWriteThrew)
                => items[i].status = "failed" /\ items[i].lastError = DbErrorText
C7_Witness ==
    \E i \in Urls : /\ task[i].pc = "settle"
                    /\ task[i].progressThrew
                    /\ task[i].err = DbErrorText
                    /\ ~task[i].thrown
                    /\ items[i].status = "failed"

\* C8: a task whose fetch fails is retried by the queue; the URL is given up
\* as failed only after 3 attempts.
C8_FetchFailureUsesAllAttempts ==
    \A i \in DOMAIN items :
        (items[i].status = "failed" /\ items[i].lastError \in FetchErrorTexts)
        => task[i].attemptsMade = MaxAttempts

\* C9: under fair scheduling every started task eventually leaves its item
\* completed or failed; no item stays in processing forever, also when a
\* persistence write fails and the queue's 3 attempts are used up.
C9_StartedItemReachesTerminal ==
    \A i \in Urls :
        (i \in DOMAIN items /\ items[i].status = "processing")
          ~> (i \in DOMAIN items /\ items[i].status \in Terminal)

AllTasksRan ==
    /\ dispatch.pc = "returned" /\ dispatch.result = "jobId"
    /\ \A i \in DOMAIN items : task[i].pc = "completed"
JobFinished ==
    job.processedUrls = job.totalUrls /\ job.status \in {"completed", "failed"}

\* C10: under fair scheduling, once all tasks of a job were enqueued and have
\* run, the job row eventually has processedUrls = totalUrls and status
\* completed or failed (stated for behaviours in which no persistence call
\* throws and every task returned normally).
C10_AllRunJobFinishes == (AllTasksRan /\ ~dbFailed) ~> JobFinished

\* A step in which the updateJobProgress of task i writes the job row.
ProgressWritten(i) ==
    /\ task[i].pc = "progressWrite"
    /\ task'[i].pc = "settle"
    /\ ~task'[i].progressThrew

\* The job row holds what an updateJobProgress wrote from the counts snap.
RowWrittenFrom(snap) ==
    /\ job.processedUrls = snap.completedCount
    /\ job.failedUrls = snap.failedCount
    /\ job.status = DerivedStatus(snap.completedCount, snap.failedCount,
                                  snap.totalCount)

\* C11: re-deriving the job row a second time from an unchanged set of item
\* statuses is idempotent: an updateJobProgress that writes the row from the
\* counts an earlier call already wrote leaves processedUrls, failedUrls and
\* status identical.
C11_SecondProgressWriteChangesNothing ==
    [][ \A i \in Urls :
          (ProgressWritten(i) /\ RowWrittenFrom(task[i].snap)) => job' = job ]_vars
C11_Witness ==
    \E i \in Urls : /\ task[i].pc = "progressWrite"
                    /\ task[i].snap = ReadProgress(items)
                    /\ RowWrittenFrom(task[i].snap)
                    /\ TerminalCount > 1 /\ FailedCount > 0

\* C12: when the job row is stale because a task ended after its terminal
\* item write without recomputing the progress, the next updateJobProgress
\* that runs alone (no item changes between its select and its update) writes
\* the current processedUrls, failedUrls and status, whatever the row held.
C12_LoneProgressCorrectsStaleRow ==
    [][ \A i \in Urls :
          (ProgressWritten(i) /\ task[i].snap = ReadProgress(items))
          => /\ job'.processedUrls = TerminalCount'
             /\ job'.failedUrls = FailedCount'
             /\ job'.status = DerivedStatus(TerminalCount', FailedCount', Len(items')) ]_vars
C12_Witness ==
    \E i, j \in Urls :
        /\ i # j
        /\ task[j].pc = "completed" /\ items[j].status \in Terminal
        /\ job.processedUrls = 0 /\ job.status = "processing"
        /\ task[i].pc = "progressWrite"
        /\ task[i].snap = ReadProgress(items)
        /\ TerminalCount = 2 /\ FailedCount = 1

\* C15: an error raised while the fetched document is loaded or parsed is
\* absorbed inside extraction, and the item still ends completed, not failed.
C15_ExtractionErrorLeavesItemCompleted ==
    \A i \in Urls :
        (task[i].pc = "settle" /\ task[i].err = LoadErrorText /\ ~dbFailed)
        => items[i].status = "completed"

Submitted(i) == task[i].pc \notin {"unsubmitted", "rejected"}

\* C16: createJob creates exactly one item per input URL, each pending and
\* carrying the new job's id, and submits one queue task per created item with
\* that item's id, URL and job id, with at most 3 attempts and a backoff of
\* 2 seconds doubling per attempt; when createJob returns the job id, as many
\* tasks were enqueued as there are URLs.
C16_OneItemAndOneTaskPerUrl ==
    /\ items # << >> =>
          /\ Len(items) = dispatch.urls /\ Len(items) = job.totalUrls
          /\ \A i \in DOMAIN items : items[i].jobId = job.id /\ items[i].url = i
          /\ dispatch.pc \in {"progressRead", "progressWrite"}
                => \A i \in DOMAIN items : items[i].status = "pending"
    /\ \A i \in Urls :
          /\ task[i].pc # "unsubmitted" =>
                /\ i \in DOMAIN items
                /\ task[i].data.itemId = i
                /\ task[i].data.url = items[i].url
                /\ task[i].data.jobId = job.id
          /\ task[i].attemptsMade <= 3
          /\ (task[i].pc = "waiting" /\ task[i].attemptsMade = 1) => task[i].delayMs = 2000
          /\ (task[i].pc = "waiting" /\ task[i].attemptsMade = 2) => task[i].delayMs = 4000
          /\ task[i].pc = "failed" => task[i].attemptsMade = 3
    /\ (dispatch.pc = "returned" /\ dispatch.result = "jobId")
          => Cardinality({i \in Urls : Submitted(i)}) = dispatch.urls
C16_Witness ==
    /\ dispatch.pc = "returned" /\ dispatch.result = "jobId" /\ dispatch.urls = 2
    /\ \E i \in Urls : task[i].pc = "waiting" /\ task[i].attemptsMade = 2

\* C17: when the submission of one of the job's tasks fails, createJob returns
\* an error instead of a job id, and the job row and all created items stay in
\* the database.
C17_EnqueueFailureIsAnError ==
    /\ (dispatch.pc = "returned" /\ \E i \in Urls : task[i].pc = "rejected")
          => /\ dispatch.result = "error"
             /\ job.exists /\ Len(items) = job.totalUrls
    /\ (dispatch.pc = "returned" /\ dispatch.result = "jobId")
          => \A i \in DOMAIN items : task[i].pc # "rejected"
C17_Witness ==
    /\ dispatch.pc = "returned" /\ dispatch.result = "error"
    /\ \E i, j \in Urls : /\ task[i].pc = "rejected"
                           /\ task[j].pc = "completed"
                           /\ items[j].status = "completed"
    /\ job.exists /\ Len(items) = 2

\* The frame of a task step: only the row of its own item changes.
C19_TaskWritesOnlyOwnRows ==
    [][ \A i \in Urls :
          task'[i] # task[i]
            => \A j \in DOMAIN items : j # i => items'[j] = items[j] ]_vars

\* C19: a task writes only the row of its item and the row of the job; when
\* it fails, the rows of the other items are unchanged and the other tasks of
\* the job still run to a terminal item status.
C19_FailureLeavesSiblingsRunning ==
    /\ C19_TaskWritesOnlyOwnRows
    /\ \A i, j \in Urls :
          (i # j /\ i \in DOMAIN items /\ items[i].status = "failed" /\ Submitted(j))
            ~> (j \in DOMAIN items /\ items[j].status \in Terminal)

\* A sub-field of a contact card is present when it has text besides whitespace.
C13_Present(t) == t.s # NULL /\ t.n > 0
C13_CompleteCards(cards) ==
    {k \in DOMAIN cards : /\ C13_Present(cards[k].name)
                          /\ C13_Present(cards[k].title)
                          /\ C13_Present(cards[k].email)}

\* C13: the contacts parseContacts returns (the contacts of a completed item)
\* are null or a non-empty sequence whose entries all have a non-empty name,
\* title and email; a card lacking one of the three never appears, whether the
\* contacts come from the cards or from entity recognition.
C13_ContactsAllOrNothing ==
    Returned("parseContacts") =>
        LET contacts == call.ret.contacts
            complete == C13_CompleteCards(call.arg.cards)
        IN /\ contacts.isNull <=> contacts.list = << >>
           /\ \A k \in DOMAIN contacts.list :
                 /\ C13_Present(contacts.list[k].name)
                 /\ C13_Present(contacts.list[k].title)
                 /\ C13_Present(contacts.list[k].email)
                 /\ contacts.list[k].name.pad = 0
                 /\ contacts.list[k].title.pad = 0
                 /\ contacts.list[k].email.pad = 0
           /\ complete # {} => Len(contacts.list) = Cardinality(complete)
C13_Witness ==
    /\ Returned("parseContacts")
    /\ Len(call.arg.cards) = 2
    /\ C13_CompleteCards(call.arg.cards) = {2}
    /\ C13_Present(call.arg.cards[1].name) /\ C13_Present(call.arg.cards[1].title)
    /\ ~call.ret.contacts.isNull /\ Len(call.ret.contacts.list) = 1

\* Layer 1 yields a value for a field: text besides whitespace, and for the
\* website a non-empty href attribute.
C14_Layer1Yields(markup, f) ==
    /\ markup.l1[f].s # NULL
    /\ IF f = "website" THEN markup.l1[f].n + markup.l1[f].pad > 0
       ELSE markup.l1[f].n > 0
C14_FromLayer2 == {"L2", "L2 long", "L2 later"}
C14_FromLayer3 == {"Acme Corp", "San Francisco", "Cached Inc"}

C18_TransportCodeFirst(e) ==
    IF e.code = "ECONNABORTED" THEN "Request timeout"
    ELSE IF e.code = "ECONNREFUSED" THEN "Connection refused"
    ELSE IF e.code = "ENOTFOUND" THEN "DNS resolution failed"
    ELSE IF e.code = "ECONNRESET" THEN "Connection reset by server"
    ELSE IF e.status > 0 THEN "HTTP " \o ToString(e.status)
    ELSE e.message

C20_RerunEnded(i) ==
    /\ task[i].redelivered /\ task[i].pc = "settle"
    /\ task[i].before.item.status = "completed"
    /\ task[i].err = NoError
    /\ ~dbFailed

\* The item part of C20: the re-run leaves the item in the terminal status and
\* with the extracted data of the first run.
C20_RerunRestoresItem ==
    \A i \in Urls :
        C20_RerunEnded(i)
        => /\ items[i].status = task[i].before.item.status
           /\ items[i].extracted = task[i].before.item.extracted
           /\ items[i].lastError = task[i].before.item.lastError

\* C20: executing processItem a second time for the same item with an
\* unchanged fetched document ends with the item in a terminal status whose
\* extracted data equal those of the first run, and with the job's
\* processedUrls, failedUrls and status unchanged.
C20_RerunChangesNothing ==
    \A i \in Urls :
        C20_RerunEnded(i)
        => /\ items[i].status \in Terminal
           /\ items[i].extracted = task[i].before.item.extracted
           /\ job.processedUrls = task[i].before.job.processedUrls
           /\ job.failedUrls = task[i].before.job.failedUrls
           /\ job.status = task[i].before.job.status

C22_MemoizedOnceComputed ==
    (Returned("processItem.extract") /\ ~call.arg.body.nlpThrows)
        => /\ call.ret.parsed.nlpCalls <= 1
           /\ (call.ret.parsed.nerCalls = 2 /\ call.arg.body.len >= MinNerTextLength)
                 => call.ret.parsed.nlpCalls = 1

\* C22: within one execution of a task entity recognition over the document is
\* computed at most once; when both company-data extraction and contact
\* extraction need it, the second use does not recompute.
C22_NerComputedAtMostOnce ==
    Returned("processItem.extract") => call.ret.parsed.nlpCalls <= 1

\* C23: getJob for a job id that belongs to a different user discloses neither
\* the job row nor any of its items, and returns Not Found (Bad Request when
\* the lookup itself throws), exactly as for a job id that does not exist.
C23_ForeignJobIsNotFound ==
    Returned("getJob") =>
        LET owner == call.arg.db.owner[call.arg.jobId]
            absent == [call.arg.db EXCEPT !.owner[call.arg.jobId] = NoUser]
        IN owner # call.arg.userId
           => /\ call.ret.job.id = NULL /\ call.ret.job.userId = NULL
              /\ call.ret.items = << >>
              /\ call.ret.error # NoError
              /\ call.arg.found => call.ret.error = "NotFoundException"
              /\ call.ret = GetJob(absent, call.arg.jobId, call.arg.userId,
                                   call.arg.found, call.arg.listed)
C23_Witness ==
    /\ Returned("getJob")
    /\ call.arg.db.owner[call.arg.jobId] = "user-1" /\ call.arg.userId = "user-2"
    /\ call.arg.db.itemCount = 2 /\ call.arg.found /\ call.arg.listed
    /\ call.ret.error = "NotFoundException"

\* The positions of a task at which an execution of processItem has ended or
\* has left its extraction behind.
C24_PastExtraction ==
    {"markCompleted", "markFailed", "progressRead", "progressWrite", "settle",
     "waiting", "completed", "failed"}

\* C24: whenever an execution of processItem ends, on any exit path, the
\* entity-recognition cache holds no entry for that item; what an extraction
\* returns is what it computes from its own document with no entry present,
\* so no entry of another item or of an earlier execution is returned to it,
\* and the cache does not grow across tasks.
C24_CacheHoldsNothingAfterExtraction ==
    /\ \A i \in Urls :
          /\ task[i].pc \in C24_PastExtraction => ~nerCache[i].present
          /\ task[i].pc = "markCompleted"
                => task[i].parsed =
                      ExtractionBlock(FetchedPages[task[i].html], i, EmptyNerCache).parsed
    /\ (\A i \in Urls : task[i].pc \notin Running)
          => Cardinality({k \in DOMAIN nerCache : nerCache[k].present}) = 0
C24_Witness ==
    \E i \in Urls :
        /\ task[i].pc = "markCompleted" /\ task[i].attemptsMade > 1
        /\ task[i].parsed.nerCalls = 2 /\ task[i].parsed.nlpCalls = 1
        /\ ~nerCache[i].present
        /\ \E j \in Urls \ {i} : task[j].pc = "settle" /\ task[j].err = NoError

\* Task i moves to position p in this step.
C25_Enters(i, p) == task'[i].pc = p /\ task[i].pc # p

\* C25: within one task execution the item is marked processing with its
\* start time before the delay begins, the fetch starts only after the delay
\* and only for an item marked processing, extraction runs only on a
\* successfully fetched document, and the completed status, with lastError
\* cleared and the finish time set, is written only after extraction.
C25_StepsInOrder ==
    [][ \A i \in Urls :
          /\ C25_Enters(i, "delay")
                => /\ task[i].pc = "markProcessing"
                   /\ items'[i].status = "processing" /\ items'[i].startedAt
          /\ C25_Enters(i, "fetch")
                => /\ task[i].pc = "delay"
                   /\ items[i].status = "processing" /\ items[i].startedAt
          /\ C25_Enters(i, "extract")
                => /\ task[i].pc = "fetch"
                   /\ task'[i].html \in Htmls /\ task'[i].err = NoError
          /\ C25_Enters(i, "markCompleted")
                => /\ task[i].pc = "extract"
                   /\ FetchedPages[task[i].html].loadable
                   /\ items[i].status = "processing"
          /\ (i \in DOMAIN items /\ items'[i] # items[i] /\ items'[i].status = "completed")
                => /\ task[i].pc = "markCompleted"
                   /\ task[i].html \in Htmls
                   /\ items'[i].lastError = NULL /\ items'[i].finishedAt
                   /\ items'[i].extracted /\ items'[i].startedAt ]_vars
C25_Witness ==
    \E i \in Urls :
        /\ task[i].pc = "progressRead" /\ task[i].err = NoError
        /\ task[i].attemptsMade = 2
        /\ items[i].status = "completed" /\ items[i].lastError = NULL
        /\ items[i].startedAt /\ items[i].finishedAt

\* The candidates of a fallback list that are non-empty and shorter than 500
\* characters after trimming.
C26_Qualifying(extracted) ==
    {k \in DOMAIN extracted :
        /\ extracted[k].s \notin {NULL, "<throws>"}
        /\ extracted[k].n > 0 /\ extracted[k].n < 500}

\* C26: Layer 2 returns the trimmed value of the first selector of the list
\* whose value is non-empty and shorter than 500 characters after trimming;
\* selectors after that one are not evaluated, an empty or too long candidate
\* is skipped in favour of the next, and the result is null when no candidate
\* qualifies.
C26_FirstQualifyingCandidate ==
    Returned("tryFallbackSelectors") =>
        LET extracted == call.arg
            qualifying == C26_Qualifying(extracted)
        IN IF qualifying = {}
           THEN call.ret.value.s = NULL /\ call.ret.tried = Len(extracted)
           ELSE LET first == CHOOSE k \in qualifying : \A j \in qualifying : k <= j
                IN /\ call.ret.value.s = extracted[first].s
                   /\ call.ret.value.n = extracted[first].n
                   /\ call.ret.value.pad = 0
                   /\ call.ret.tried = first
C26_Witness ==
    /\ Returned("tryFallbackSelectors")
    /\ Len(call.arg) = 3
    /\ call.arg[1].n = 500 /\ call.arg[2].n = 499 /\ call.arg[2].pad = 2
    /\ call.arg[3].s = "L2 other"
    /\ call.ret.value.s = "L2 short" /\ call.ret.tried = 2

\* Layers 1 and 2 leave field f of the document missing: no text at the
\* primary selector and no qualifying fallback candidate.
C27_MissingAfterLayers(markup, f) ==
    /\ ~C14_Layer1Yields(markup, f)
    /\ C26_Qualifying(markup.l2[f]) = {}

C28_FirstOccurrences(emails) ==
    {k \in DOMAIN emails : \A j \in 1..(k - 1) : emails[j] # emails[k]}
C28_DistinctEmail(emails, i) ==
    LET first == C28_FirstOccurrences(emails)
    IN emails[CHOOSE k \in first : Cardinality({j \in first : j <= k}) = i]

\* C28: when no structured contact exists, with K = min(number of person
\* names, number of distinct emails), person i is paired with the i-th
\* distinct email for i <= K, every such contact has title "Unknown", a person
\* whose name length is not strictly between 1 and 100 is skipped together
\* with its paired email while later pairs keep their positions, and no
\* contact is built when there are no people or no emails.
C28_PeoplePairedWithDistinctEmails ==
    ( /\ Returned("parseContacts") /\ ~call.ret.caught
      /\ C13_CompleteCards(call.arg.cards) = {} ) =>
        LET ner == ExtractWithNER(call.arg.body, call.arg.cache).ner
            people == ner.people
            emails == ner.emails
            distinct == Cardinality(C28_FirstOccurrences(emails))
            K == IF Len(people) < distinct THEN Len(people) ELSE distinct
            kept == {i \in 1..K : /\ people[i].s # NULL
                                  /\ people[i].n + people[i].pad > 1
                                  /\ people[i].n + people[i].pad < 100}
            contacts == call.ret.contacts.list
        IN /\ Len(contacts) = Cardinality(kept)
           /\ \A i \in kept :
                 LET c == contacts[Cardinality({v \in kept : v <= i})]
                 IN /\ c.name = people[i]
                    /\ c.email = C28_DistinctEmail(emails, i)
                    /\ c.title.s = "Unknown"
           /\ (Len(people) = 0 \/ Len(emails) = 0) => call.ret.contacts.isNull
C28_Witness ==
    /\ Returned("parseContacts") /\ ~call.arg.cache.present
    /\ call.arg.cards = << >>
    /\ Len(call.arg.body.people) = 2 /\ Len(call.arg.body.emails) = 3
    /\ Len(call.ret.contacts.list) = 1
    /\ call.ret.contacts.list[1].name = JaneDoe
    /\ call.ret.contacts.list[1].email = BobMail

\* The mentions of a list that lie within the first `limit` characters and
\* whose length is strictly between 1 and 100.
C29_Candidates(mentions, limit) ==
    {k \in DOMAIN mentions :
        /\ mentions[k].end <= limit
        /\ mentions[k].t.n + mentions[k].t.pad > 1
        /\ mentions[k].t.n + mentions[k].t.pad < 100}
C29_FirstCandidate(offered, mentions, limit) ==
    LET candidates == C29_Candidates(mentions, limit)
    IN IF candidates = {} THEN offered.s = NULL
       ELSE offered = mentions[CHOOSE k \in candidates : \A j \in candidates : k <= j].t

\* C29: Layer 3 contributes nothing when the whitespace-collapsed body text is
\* shorter than 50 characters; otherwise it works on at most the first 100,000
\* characters, the company name it offers is the first organization candidate
\* whose length is strictly between 1 and 100 (null if none), and the location
\* likewise the first such place candidate.
C29_Layer3Offers ==
    (Returned("extractWithNER") /\ ~call.arg.cache.present /\ ~call.ret.threw) =>
        LET body == call.arg.body
            ner == call.ret.ner
            limit == IF body.len < 100000 THEN body.len ELSE 100000
        IN IF body.len < 50
           THEN /\ ner.companyName.s = NULL /\ ner.hqLocation.s = NULL
                /\ ner.people = << >> /\ ner.emails = << >>
                /\ call.ret.nlpCalls = 0
           ELSE /\ C29_FirstCandidate(ner.companyName, body.organizations, limit)
                /\ C29_FirstCandidate(ner.hqLocation, body.places, limit)
                /\ Len(ner.people)
                     = Cardinality({k \in DOMAIN body.people : body.people[k].end <= limit})
                /\ Len(ner.emails)
                     = Cardinality({k \in DOMAIN body.emails : body.emails[k].end <= limit})
C29_Witness ==
    /\ Returned("extractWithNER") /\ ~call.arg.cache.present
    /\ call.arg.body.len > 100000
    /\ Len(call.arg.body.organizations) = 2 /\ call.ret.ner.companyName.s = NULL
    /\ call.ret.ner.hqLocation = SanFrancisco
    /\ Len(call.ret.ner.people) = 1 /\ Len(call.ret.ner.emails) = 1

\* The step is the update of an updateJobProgress call of `writer` (a task or
\* the dispatcher), and the job row becomes the one its counts give.
C30_WrittenFrom(writer, writerAfter) ==
    /\ writer.pc = "progressWrite" /\ writerAfter.pc # "progressWrite"
    /\ job'.processedUrls = writer.snap.completedCount
    /\ job'.failedUrls = writer.snap.failedCount
    /\ job'.status = DerivedStatus(writer.snap.completedCount, writer.snap.failedCount,
                                   writer.snap.totalCount)

\* C30: after a job row is created, its processedUrls, failedUrls and status
\* are written only by updateJobProgress, which sets them to the counts it
\* read; no other step of processItem changes the job row, and no counter is
\* incremented or decremented.
C30_JobRowWrittenOnlyByProgress ==
    [][ (job.exists /\ job' # job) =>
          /\ job'.exists /\ job'.id = job.id /\ job'.totalUrls = job.totalUrls
          /\ \/ C30_WrittenFrom(dispatch, dispatch')
             \/ \E i \in Urls : C30_WrittenFrom(task[i], task'[i]) ]_vars
C30_Witness ==
    /\ job.exists /\ job.processedUrls = 2 /\ job.failedUrls = 1
    /\ job.status = "completed"
    /\ \E i \in Urls : /\ task[i].pc = "settle" /\ task[i].progressCalls = 1
                         /\ ~task[i].progressThrew /\ items[i].status = "failed"

\* C31: once the status of a job is completed or failed, no step sets it to
\* processing again, whatever the interleaving of the tasks of the job.
C31_FinishedJobStaysFinished ==
    [][ (job.exists /\ job.status \in {"completed", "failed"})
          => job'.status # "processing" ]_vars

\* C32: the processedUrls of a job never decreases from one write of the job
\* row to the next, whatever the interleaving of updateJobProgress calls.
C32_ProcessedNeverDecreases ==
    [][ (job.exists /\ job'.exists) => job'.processedUrls >= job.processedUrls ]_vars

\* C33: in every reachable state the job row, once inserted, satisfies
\* 0 <= failedUrls <= processedUrls <= totalUrls.
C33_CountersOrdered ==
    job.exists =>
        /\ 0 <= job.failedUrls
        /\ job.failedUrls <= job.processedUrls
        /\ job.processedUrls <= job.totalUrls
C33_Witness ==
    /\ job.exists /\ job.totalUrls = 2
    /\ job.failedUrls = 2 /\ job.processedUrls = 2
    /\ \E i \in Urls : task[i].pc = "settle" /\ task[i].progressCalls = 1

\* The counts an updateJobProgress call has read are over totalUrls items and
\* give the status of the formula over totalUrls.
C34_CountedOverTotal(snap) ==
    /\ snap.totalCount = job.totalUrls
    /\ JobStatusOf(snap.completedCount, snap.failedCount, snap.totalCount)
         = DerivedStatus(snap.completedCount, snap.failedCount, job.totalUrls)

\* C34: from the creation of the items onward the totalUrls of the job equals
\* the number of its item rows, so the status that updateJobProgress derives
\* from the number of item rows is the one the formula gives over totalUrls.
C34_TotalIsItemCount ==
    /\ items # << >> =>
          /\ job.exists /\ Len(items) = job.totalUrls
          /\ \A i \in DOMAIN items : items[i].jobId = job.id
    /\ dispatch.pc = "progressWrite" => C34_CountedOverTotal(dispatch.snap)
    /\ \A i \in Urls : task[i].pc = "progressWrite" => C34_CountedOverTotal(task[i].snap)
C34_Witness ==
    /\ Len(items) = 2 /\ job.totalUrls = 2
    /\ \E i \in Urls : /\ task[i].pc = "progressWrite"
                       /\ task[i].snap.totalCount = 2
                       /\ task[i].snap.completedCount = 2

\* The step is the failed-status write of the execution on item i.
C35_MarksFailed(i) ==
    /\ task[i].pc = "markFailed" /\ task'[i].pc # "markFailed"
    /\ items' # items

\* C35: marking an item failed changes only its status, lastError and
\* finishedAt and leaves its extracted data (and every other item) as they
\* were; so an item that completed in an earlier execution and fails when its
\* task is run again is failed and still carries the earlier extracted data.
C35_FailedWriteKeepsData ==
    /\ [][ \A i \in DOMAIN items :
             C35_MarksFailed(i) =>
                /\ items'[i].status = "failed"
                /\ items' = [items EXCEPT ![i].status = "failed",
                                          ![i].lastError = items'[i].lastError,
                                          ![i].finishedAt = items'[i].finishedAt] ]_vars
    /\ [](\A i \in DOMAIN items :
             (task[i].redelivered /\ task[i].before.item.status = "completed"
                /\ items[i].status = "failed") => items[i].extracted)
C35_Witness ==
    \E i \in DOMAIN items :
        /\ task[i].redelivered /\ task[i].before.item.status = "completed"
        /\ task[i].before.item.extracted
        /\ items[i].status = "failed" /\ items[i].extracted
        /\ items[i].lastError # NULL

\* C36: in every reachable state an item with status completed has lastError
\* null and a finish time, and an item with status failed has a lastError and
\* a finish time, also after its task was run again.
C36_TerminalItemFields ==
    \A i \in DOMAIN items :
        /\ items[i].status = "completed"
             => (items[i].lastError = NULL /\ items[i].finishedAt)
        /\ items[i].status = "failed"
             => (items[i].lastError # NULL /\ items[i].finishedAt)
C36_Witness ==
    \E i \in DOMAIN items :
        /\ task[i].redelivered /\ task[i].before.item.status = "failed"
        /\ task[i].before.item.lastError # NULL
        /\ items[i].status = "completed" /\ items[i].lastError = NULL
        /\ items[i].finishedAt

\* Entity recognition runs in the call and throws: the company name or the
\* location is missing after Layers 1 and 2, nothing is cached for the item,
\* the body text has 50 characters or more and nlp() throws on it.
C37_NerThrows ==
    /\ \E f \in {"companyName", "hqLocation"} : C27_MissingAfterLayers(call.arg.markup, f)
    /\ ~call.arg.cache.present
    /\ call.arg.body.len >= 50 /\ call.arg.body.nlpThrows

C38_Refused(request) ==
    \/ ~request.file.present /\ ~request.useMockServer
    \/ request.file.present /\ request.useMockServer
    \/ request.file.present /\ request.file.valid = 0

C38_NothingCreated ==
    /\ job = NoJob /\ items = << >>
    /\ \A i \in Urls : task[i].pc = "unsubmitted"

\* C38: createJob rejects the request with an error and creates no job row, no
\* item and no queue task when neither a file nor the mock-server flag is
\* given, when both are given, or when no valid URL is extracted.
C38_RefusedRequestCreatesNothing ==
    /\ [][ (dispatch.pc = "createJob" /\ dispatch' # dispatch
              /\ C38_Refused(dispatch.request))
             => /\ dispatch'.pc = "returned" /\ dispatch'.result = "error"
                /\ dispatch'.request = dispatch.request
                /\ job' = NoJob /\ items' = << >> /\ task' = task ]_vars
    /\ []((dispatch.request.held /\ C38_Refused(dispatch.request))
            => C38_NothingCreated)
C38_Witness ==
    /\ dispatch.pc = "returned" /\ dispatch.result = "error"
    /\ dispatch.request.held
    /\ dispatch.request.file.present /\ ~dispatch.request.useMockServer
    /\ dispatch.request.file.lines = 2 /\ dispatch.request.file.valid = 0
    /\ C38_NothingCreated /\ ~dbFailed

====
